---- MODULE Spec2Model ----
(***************************************************************************)
(* Model of the weather proxy of src/app/__init__.py: the two Flask        *)
(* handlers weather_daily (/api/weather) and weather_weekly (/api/weekly), *)
(* their helpers build_api_call and fetch_weather, and the upstream        *)
(* provider they call once per request.                                    *)
(*                                                                         *)
(* Representation.  A Python dict is a function whose DOMAIN is the set of *)
(* keys present.  A value that may be None (a handler argument, a field of *)
(* the weekly summary) is boxed: None is <<>> and x is <<x>>.  A path      *)
(* segment or a date is the string itself; float() and                     *)
(* date.fromisoformat() are tables over the sample strings.  A Python      *)
(* float is [kind, milli]: a finite number in thousandths of a degree, nan *)
(* or inf.  Weather readings are integers.  avg_pressure_hPa is held in    *)
(* tenths and avg_sunshine_hours in hundredths.                            *)
(*                                                                         *)
(* Scope.  The upstream's JSON bodies are well typed: `daily` and          *)
(* `daily_units` are objects, the fields of `daily` arrays of numbers (of  *)
(* strings for time), any of them possibly missing.  RoundDiv rounds ties  *)
(* to even, as round() does on an exact tie; the sample data holds no      *)
(* decimal tie whose binary value would round the other way.               *)
(***************************************************************************)
EXTENDS Integers, Sequences, FiniteSets, TLC

VARIABLES
    pc,         \* "idle" | "received" | "awaiting" | "done": where the request is
    request,    \* the inbound request being served
    calls,      \* the URLs requests.get was called with while serving it
    upstream,   \* the upstream's answer to the call, boxed (None before it)
    responses   \* the HTTP responses sent for it

vars == <<pc, request, calls, upstream, responses>>

----------------------------------------------------------------------------
(* Bounds of the model. *)

\* Longest weather_code array the upstream sends in the mode family.
MaxCodes == 3

----------------------------------------------------------------------------
(* Python values. *)

None == <<>>
Some(x) == <<x>>

EmptyDict == [k \in {} |-> 0]

\* d.get(k, default)
Get(d, k, default) == IF k \in DOMAIN d THEN d[k] ELSE default

\* A dict entry that is present only when its boxed value is.
Entry(k, boxed) == IF boxed = None THEN EmptyDict ELSE (k :> boxed[1])

\* Truthiness of a list or a dict: non-empty.
Truthy(x) == DOMAIN x # {}

REQUEST_TIMEOUT == 8

\* timedelta(days=7)
DefaultSpanDays == 7

----------------------------------------------------------------------------
(* float(): the path segments the model sends and what float() makes of    *)
(* them.  "foo" and "bar" raise ValueError; "nan" and "inf" parse.         *)

LatStrings == {"foo", "nan", "inf", "-91", "-90.5", "37.774", "90", "90.5", "91"}
LonStrings == {"bar", "-181", "-180.9", "-180", "-122.419", "180.5"}

Num(m) == [kind |-> "num", milli |-> m]

float(s) ==
    CASE s = "nan"      -> [raised |-> "", value |-> [kind |-> "nan", milli |-> 0]]
      [] s = "inf"      -> [raised |-> "", value |-> [kind |-> "inf", milli |-> 0]]
      [] s = "-181"     -> [raised |-> "", value |-> Num(-181000)]
      [] s = "-180.9"   -> [raised |-> "", value |-> Num(-180900)]
      [] s = "-180"     -> [raised |-> "", value |-> Num(-180000)]
      [] s = "-122.419" -> [raised |-> "", value |-> Num(-122419)]
      [] s = "-91"      -> [raised |-> "", value |-> Num(-91000)]
      [] s = "-90.5"    -> [raised |-> "", value |-> Num(-90500)]
      [] s = "37.774"   -> [raised |-> "", value |-> Num(37774)]
      [] s = "90"       -> [raised |-> "", value |-> Num(90000)]
      [] s = "90.5"     -> [raised |-> "", value |-> Num(90500)]
      [] s = "91"       -> [raised |-> "", value |-> Num(91000)]
      [] s = "180.5"    -> [raised |-> "", value |-> Num(180500)]
      [] OTHER          -> [raised |-> "ValueError", value |-> Num(0)]

\* int(x) of a float: truncation toward zero; ValueError on nan,
\* OverflowError on inf.
int(x) ==
    CASE x.kind = "nan" -> [raised |-> "ValueError", value |-> 0]
      [] x.kind = "inf" -> [raised |-> "OverflowError", value |-> 0]
      [] OTHER ->
           [raised |-> "",
            value  |-> IF x.milli >= 0 THEN x.milli \div 1000
                                       ELSE -((-x.milli) \div 1000)]

\* Quotient a / b (b > 0) rounded to the nearest integer, ties to even.
RoundDiv(a, b) ==
    LET q == a \div b
        r == a % b
    IN  IF 2 * r < b THEN q
        ELSE IF 2 * r > b THEN q + 1
        ELSE IF q % 2 = 0 THEN q ELSE q + 1

\* round(x, 2) of a finite float, in hundredths of a degree.
round2(x) == RoundDiv(x.milli, 10)

----------------------------------------------------------------------------
(* Dates: the days the model knows, as date.strftime('%Y-%m-%d') prints    *)
(* them, and the same days in ISO 8601 basic format.                       *)

Calendar ==
    << "2025-06-01", "2025-06-02", "2025-06-03", "2025-06-04", "2025-06-05",
       "2025-06-06", "2025-06-07", "2025-06-08", "2025-06-09", "2025-06-10" >>

BasicCalendar ==
    << "20250601", "20250602", "20250603", "20250604", "20250605",
       "20250606", "20250607", "20250608", "20250609", "20250610" >>

\* The days dt.date.today() returns in the model.
Todays == {1, 2}

\* The interpreters the code runs on: date.fromisoformat reads only
\* YYYY-MM-DD before Python 3.11 and most ISO 8601 formats from 3.11 on.
Interpreters == {310, 311}

strftime(day) == Calendar[day]

IndexOf(seq, s) == CHOOSE i \in DOMAIN seq : seq[i] = s

fromisoformat(s, python) ==
    IF \E i \in DOMAIN Calendar : Calendar[i] = s
    THEN [raised |-> "", value |-> IndexOf(Calendar, s)]
    ELSE IF python >= 311 /\ \E i \in DOMAIN BasicCalendar : BasicCalendar[i] = s
    THEN [raised |-> "", value |-> IndexOf(BasicCalendar, s)]
    ELSE [raised |-> "ValueError", value |-> 0]

\* The (start, end) pairs a request carries: none (the two-segment route) or
\* both (the four-segment route).
DatePairs ==
    { <<None, None>>,
      <<Some("2025-06-01"), Some("2025-06-02")>>,
      <<Some("2025-06-03"), Some("2025-06-03")>>,
      <<Some("2025-06-10"), Some("2025-06-05")>>,
      <<Some("junk"), Some("2025-06-02")>>,
      <<Some("20250601"), Some("20250602")>> }

----------------------------------------------------------------------------
(* build_api_call *)

MsgNumeric == "Latitude and longitude must be numeric (e.g. 37.77 -122.42)."
MsgRange == "Latitude must be -90...90 and longitude -180...180."
MsgDates == "Dates must be YYYY-MM-DD."
MsgOrder == "start_date cannot be after end_date."
MsgNaN == "cannot convert float NaN to integer"
MsgUpstream == "Open-Meteo error"
MsgNoData == "No weather data found for the given location and date range."
MsgEmptySet == "Weather service returned empty data set."
MsgJson == "Expecting value: line 1 column 1 (char 0)"
MsgServerError == "Internal Server Error"

NoUrl == [latitude |-> 0, longitude |-> 0, daily |-> <<>>, timezone |-> "",
          start_date |-> "", end_date |-> ""]

Raise(exc, msg) == [raised |-> exc, msg |-> msg, url |-> NoUrl]

DailyFields ==
    <<"sunshine_duration", "temperature_2m_max", "temperature_2m_min", "weather_code">>

\* isinstance(x, (int, float)): the handlers pass what float() returned.
IsNumberType(x) == x.kind \in {"num", "nan", "inf"}

\* -90 <= int(lat) <= 90
LatInRange(lat) == -90 <= int(lat).value /\ int(lat).value <= 90

\* -180 <= int(lon) <= 180
LonInRange(lon) == -180 <= int(lon).value /\ int(lon).value <= 180

\* start_d > end_d
StartAfterEnd(start_d, end_d) == start_d > end_d

build_api_call(lat, lon, daily, start0, end0, today, python) ==
    LET start == IF start0 = None THEN strftime(today) ELSE start0[1]
        end   == IF end0 = None THEN strftime(today + DefaultSpanDays) ELSE end0[1]
        sd    == fromisoformat(start, python)
        ed    == fromisoformat(end, python)
    IN  IF ~IsNumberType(lat) \/ ~IsNumberType(lon)
        THEN Raise("ValueError", MsgNumeric)
        \* int(lat) is evaluated first; int(lon) only when the latitude test passes
        ELSE IF int(lat).raised = "ValueError" THEN Raise("ValueError", MsgNaN)
        ELSE IF int(lat).raised = "OverflowError" THEN Raise("OverflowError", "")
        ELSE IF ~LatInRange(lat) THEN Raise("ValueError", MsgRange)
        ELSE IF int(lon).raised = "ValueError" THEN Raise("ValueError", MsgNaN)
        ELSE IF int(lon).raised = "OverflowError" THEN Raise("OverflowError", "")
        ELSE IF ~LonInRange(lon) THEN Raise("ValueError", MsgRange)
        ELSE IF sd.raised # "" \/ ed.raised # "" THEN Raise("ValueError", MsgDates)
        ELSE IF StartAfterEnd(sd.value, ed.value) THEN Raise("ValueError", MsgOrder)
        ELSE [raised |-> "", msg |-> "",
              url |-> [latitude   |-> round2(lat),
                       longitude  |-> round2(lon),
                       daily      |-> IF daily THEN DailyFields
                                      ELSE Append(DailyFields, "pressure_msl_mean"),
                       timezone   |-> "auto",
                       start_date |-> start,
                       end_date   |-> end]]

----------------------------------------------------------------------------
(* flask.abort and the framework's handling of exceptions. *)

\* The status codes werkzeug's Aborter has an exception class for.
AborterCodes ==
    { 400, 401, 403, 404, 405, 406, 408, 409, 410, 411, 412, 413, 414, 415,
      416, 417, 418, 422, 423, 424, 428, 429, 431, 451,
      500, 501, 502, 503, 504, 505 }

\* What the client receives when an exception no handler catches escapes.
InternalServerError == [status |-> 500, message |-> MsgServerError, body |-> EmptyDict]

\* abort(code, description=...): the HTTPException of that code, or, for a
\* code the Aborter has no class for, LookupError, which nothing catches.
abort(code, description) ==
    IF code \in AborterCodes
    THEN [status |-> code, message |-> description, body |-> EmptyDict]
    ELSE InternalServerError

\* jsonify(body): 200 OK.
jsonify(body) == [status |-> 200, message |-> "", body |-> body]

----------------------------------------------------------------------------
(* The upstream provider: what requests.get returns or raises. *)

SamplePressure == <<1000, 1021>>
SampleTMax == <<5, 10, 7>>
SampleTMin == <<2, 0, 1>>
SampleSunshine == <<3600, 7300>>
SampleCodes == <<3, 3, 2>>
SampleTime == <<"2025-06-04", "2025-06-05", "2025-06-06">>

\* A field of `daily`: missing, the empty array, or the sample.
Field(sample) == {None, Some(<<>>), Some(sample)}

CodeValues == {0, 1, 3}

\* Every non-empty weather_code array of at most MaxCodes elements.
CodeArrays == UNION {[1..n -> CodeValues] : n \in 1..MaxCodes}

SampleUnits ==
    [sunshine_duration |-> "s", temperature_2m_max |-> "C", temperature_2m_min |-> "C"]

UnitsChoices ==
    { None, Some(EmptyDict), Some([sunshine_duration |-> "s"]),
      Some(SampleUnits @@ [time |-> "iso8601", weather_code |-> "wmo code"]) }

Daily(time, pressure, tmax, tmin, sunshine, codes) ==
    Entry("time", time) @@ Entry("pressure_msl_mean", pressure)
        @@ Entry("temperature_2m_max", tmax) @@ Entry("temperature_2m_min", tmin)
        @@ Entry("sunshine_duration", sunshine) @@ Entry("weather_code", codes)

\* Each of the five data arrays missing, empty or filled, with and without time.
PresenceBodies ==
    { ("daily" :> Daily(t, p, a, b, s, c)) :
        t \in {None, Some(SampleTime)}, p \in Field(SamplePressure),
        a \in Field(SampleTMax), b \in Field(SampleTMin),
        s \in Field(SampleSunshine), c \in Field(SampleCodes) }

\* Every weather_code array, in a complete body that also carries a field
\* no endpoint asks for.
ModeBodies ==
    { ("daily" :> (Daily(Some(SampleTime), Some(SamplePressure), Some(SampleTMax),
                         Some(SampleTMin), Some(SampleSunshine), Some(c))
                   @@ ("rain_sum" :> <<4, 0>>)))
        @@ ("daily_units" :> SampleUnits) @@ ("latitude" :> 3775)
        @@ ("longitude" :> -12250) @@ ("elevation" :> 18) :
        c \in CodeArrays }

\* The time array and the units in every shape, over data arrays that are all
\* filled, all empty or all missing.
ShapeBodies ==
    { ("daily" :> Daily(t, f[1], f[2], f[3], f[4], f[5])) @@ Entry("daily_units", u) :
        t \in {None, Some(<<>>), Some(<<"2025-06-07">>), Some(SampleTime)},
        u \in UnitsChoices,
        f \in { <<None, None, None, None, None>>,
                <<Some(<<>>), Some(<<>>), Some(<<>>), Some(<<>>), Some(<<>>)>>,
                <<Some(SamplePressure), Some(SampleTMax), Some(SampleTMin),
                  Some(SampleSunshine), Some(SampleCodes)>> } }

\* Bodies without `daily`: the empty object and one with other keys only.
NoDailyBodies == { EmptyDict, ("latitude" :> 3775) @@ ("longitude" :> -12250) }

Bodies == PresenceBodies \cup ModeBodies \cup ShapeBodies \cup NoDailyBodies

\* The non-success statuses the upstream answers with in the model.
ErrorStatuses == {400, 402, 404, 429, 500, 503, 507}

\* requests.get: a response (status_code and, boxed, the JSON it carries;
\* None when the payload is not JSON), or an exception (Timeout after
\* REQUEST_TIMEOUT seconds, ConnectionError).
Replies ==
    { [raised |-> "", status_code |-> 200, json |-> Some(b)] : b \in Bodies }
    \cup { [raised |-> "", status_code |-> 200, json |-> None] }
    \cup { [raised |-> "", status_code |-> s, json |-> Some(EmptyDict)] : s \in ErrorStatuses }
    \cup { [raised |-> "RequestException", status_code |-> 0, json |-> None] }

\* Response.ok: raise_for_status() would not raise.
ok(r) == ~(400 <= r.status_code /\ r.status_code < 600)

----------------------------------------------------------------------------
(* fetch_weather, after requests.get has returned r or raised. *)

\* outcome: "return" (value is the parsed body), "ValueError" (r.json() could
\* not parse; msg is its text), "abort" (response is what abort produced),
\* "error" (an exception no handler catches).
fetch_weather(r) ==
    IF r.raised # ""
    THEN [outcome |-> "error", value |-> EmptyDict, msg |-> "", response |-> InternalServerError]
    ELSE IF ok(r)
    THEN IF r.json = None
         THEN [outcome |-> "ValueError", value |-> EmptyDict, msg |-> MsgJson,
               response |-> InternalServerError]
         ELSE [outcome |-> "return", value |-> r.json[1], msg |-> "",
               response |-> InternalServerError]
    ELSE [outcome |-> "abort", value |-> EmptyDict, msg |-> "",
          response |-> abort(r.status_code, MsgUpstream)]

----------------------------------------------------------------------------
(* The aggregates of weather_weekly. *)

RECURSIVE Sum(_)
Sum(s) == IF s = <<>> THEN 0 ELSE Head(s) + Sum(Tail(s))

\* round(mean(xs), 1), in tenths.
RoundedMean1(xs) == RoundDiv(10 * Sum(xs), Len(xs))

\* round(mean(xs) / 3600, 2), in hundredths.
RoundedHours2(xs) == RoundDiv(100 * Sum(xs), 3600 * Len(xs))

\* max(xs) and min(xs): the running best is replaced only by a strictly
\* better element.
RECURSIVE MinFrom(_, _)
MinFrom(best, rest) ==
    IF rest = <<>> THEN best
    ELSE MinFrom(IF Head(rest) < best THEN Head(rest) ELSE best, Tail(rest))

min(xs) == MinFrom(Head(xs), Tail(xs))

\* max(xs) with the comparison turned round.
max_flipped(xs) == MinFrom(Head(xs), Tail(xs))

RECURSIVE MaxFrom(_, _)
MaxFrom(best, rest) ==
    IF rest = <<>> THEN best
    ELSE MaxFrom(IF Head(rest) > best THEN Head(rest) ELSE best, Tail(rest))

max(xs) == MaxFrom(Head(xs), Tail(xs))

\* Counter(xs): the distinct elements in the order they were first seen
\* (a dict keeps insertion order), each with its number of occurrences.
RECURSIVE CounterKeys(_, _)
CounterKeys(seen, rest) ==
    IF rest = <<>> THEN seen
    ELSE CounterKeys(IF \E i \in DOMAIN seen : seen[i] = Head(rest)
                     THEN seen ELSE Append(seen, Head(rest)),
                     Tail(rest))

Occurrences(xs, v) == Cardinality({i \in DOMAIN xs : xs[i] = v})

Counter(xs) ==
    LET keys == CounterKeys(<<>>, xs)
    IN  [i \in DOMAIN keys |-> <<keys[i], Occurrences(xs, keys[i])>>]

\* The scan keeping the last of the items with the largest count.
RECURSIVE MaxByCountLast(_, _)
MaxByCountLast(best, rest) ==
    IF rest = <<>> THEN best
    ELSE MaxByCountLast(IF Head(rest)[2] >= best[2] THEN Head(rest) ELSE best,
                        Tail(rest))

\* max(items, key=itemgetter(1)): the first item whose count no later item
\* exceeds.
RECURSIVE MaxByCount(_, _)
MaxByCount(best, rest) ==
    IF rest = <<>> THEN best
    ELSE MaxByCount(IF Head(rest)[2] > best[2] THEN Head(rest) ELSE best, Tail(rest))

\* most_common(1) over the scan that keeps the last of the tied items.
most_common_1_last(xs) ==
    LET items == Counter(xs)
    IN  MaxByCountLast(Head(items), Tail(items))[1]

\* Counter(xs).most_common(1)[0][0]
most_common_1(xs) ==
    LET items == Counter(xs)
    IN  MaxByCount(Head(items), Tail(items))[1]

----------------------------------------------------------------------------
(* The handlers, from entry to the outbound call. *)

\* Lines 65-76 and 105-116 up to requests.get: float() of both segments,
\* then fetch_weather's call of build_api_call.  Either a response (send is
\* FALSE) or the URL to fetch.
handler_entry(req, daily, today, python) ==
    LET lat == float(req.lat)
        lon == float(req.lon)
        b   == build_api_call(lat.value, lon.value, daily, req.start, req.end,
                              today, python)
    IN  IF lat.raised # "" \/ lon.raised # ""
        THEN [send |-> FALSE, response |-> abort(400, MsgNumeric), url |-> NoUrl]
        ELSE IF b.raised = "ValueError"
        THEN [send |-> FALSE, response |-> abort(400, b.msg), url |-> NoUrl]
        ELSE IF b.raised # ""
        THEN [send |-> FALSE, response |-> InternalServerError, url |-> NoUrl]
        ELSE [send |-> TRUE, response |-> InternalServerError, url |-> b.url]

\* not raw or "daily" not in raw
NoDaily(raw) == ~Truthy(raw) \/ "daily" \notin DOMAIN raw

\* The view that hands `daily` and `daily_units` on as they came.
filtered_passthrough(raw) ==
    [daily |-> raw["daily"], daily_units |-> Get(raw, "daily_units", EmptyDict)]

\* The body weather_daily builds from raw["daily"] and raw["daily_units"].
filtered(raw) ==
    LET daily       == raw["daily"]
        daily_units == Get(raw, "daily_units", EmptyDict)
    IN  [daily |->
            [time               |-> Get(daily, "time", <<>>),
             sunshine_duration  |-> Get(daily, "sunshine_duration", <<>>),
             temperature_2m_max |-> Get(daily, "temperature_2m_max", <<>>),
             temperature_2m_min |-> Get(daily, "temperature_2m_min", <<>>),
             weather_code       |-> Get(daily, "weather_code", <<>>)],
         daily_units |->
            [sunshine_duration  |-> Get(daily_units, "sunshine_duration", ""),
             temperature_2m_max |-> Get(daily_units, "temperature_2m_max", ""),
             temperature_2m_min |-> Get(daily_units, "temperature_2m_min", "")]]

\* The test with weather_code left out of the list.
any_data_without_codes(pressures, t_max, t_min, sunshine, codes) ==
    Truthy(pressures) \/ Truthy(t_max) \/ Truthy(t_min) \/ Truthy(sunshine)

\* any([pressures, t_max, t_min, sunshine, codes])
any_data(pressures, t_max, t_min, sunshine, codes) ==
    Truthy(pressures) \/ Truthy(t_max) \/ Truthy(t_min) \/ Truthy(sunshine)
        \/ Truthy(codes)

\* daily["time"][0] if daily.get("time") else start
start_date(daily, start) ==
    IF Truthy(Get(daily, "time", <<>>)) THEN Some(daily["time"][1]) ELSE start

\* daily["time"][-1] if daily.get("time") else end
end_date(daily, end) ==
    IF Truthy(Get(daily, "time", <<>>))
    THEN Some(daily["time"][Len(daily["time"])]) ELSE end

\* The result dict of weather_weekly; start and end are the handler's own
\* arguments, None on the two-segment route.
result(data, start, end) ==
    LET daily     == data["daily"]
        pressures == Get(daily, "pressure_msl_mean", <<>>)
        t_max     == Get(daily, "temperature_2m_max", <<>>)
        t_min     == Get(daily, "temperature_2m_min", <<>>)
        sunshine  == Get(daily, "sunshine_duration", <<>>)
        codes     == Get(daily, "weather_code", <<>>)
    IN  [avg_pressure_hPa |->
            IF Truthy(pressures) THEN Some(RoundedMean1(pressures)) ELSE None,
         weekly_max_temp |-> IF Truthy(t_max) THEN Some(max(t_max)) ELSE None,
         weekly_min_temp |-> IF Truthy(t_min) THEN Some(min(t_min)) ELSE None,
         avg_sunshine_hours |->
            IF Truthy(sunshine) THEN Some(RoundedHours2(sunshine)) ELSE None,
         most_frequent_weather_code |->
            IF Truthy(codes) THEN Some(most_common_1(codes)) ELSE None,
         latitude   |-> IF "latitude" \in DOMAIN data THEN Some(data["latitude"]) ELSE None,
         longitude  |-> IF "longitude" \in DOMAIN data THEN Some(data["longitude"]) ELSE None,
         start_date |-> start_date(daily, start),
         end_date   |-> end_date(daily, end)]

\* weather_daily with weather_weekly's test for an empty data set.
weather_daily_with_empty_check(req, r) ==
    LET f == fetch_weather(r)
    IN  CASE f.outcome = "ValueError" -> abort(400, f.msg)
          [] f.outcome = "abort"      -> f.response
          [] f.outcome = "error"      -> InternalServerError
          [] OTHER ->
               IF NoDaily(f.value) THEN abort(404, MsgNoData)
               ELSE IF \A k \in DOMAIN filtered(f.value).daily \ {"time"} :
                           filtered(f.value).daily[k] = <<>>
               THEN abort(404, MsgEmptySet)
               ELSE jsonify(filtered(f.value))

\* weather_daily from the return of requests.get to its response.
weather_daily(req, r) ==
    LET f == fetch_weather(r)
    IN  CASE f.outcome = "ValueError" -> abort(400, f.msg)
          [] f.outcome = "abort"      -> f.response
          [] f.outcome = "error"      -> InternalServerError
          [] OTHER ->
               IF NoDaily(f.value) THEN abort(404, MsgNoData)
               ELSE jsonify(filtered(f.value))

\* weather_weekly from the return of requests.get to its response.
weather_weekly(req, r) ==
    LET f == fetch_weather(r)
    IN  CASE f.outcome = "ValueError" -> abort(400, f.msg)
          [] f.outcome = "abort"      -> f.response
          [] f.outcome = "error"      -> InternalServerError
          [] OTHER ->
               IF NoDaily(f.value) THEN abort(404, MsgNoData)
               ELSE LET daily == f.value["daily"]
                    IN  IF ~any_data(Get(daily, "pressure_msl_mean", <<>>),
                                     Get(daily, "temperature_2m_max", <<>>),
                                     Get(daily, "temperature_2m_min", <<>>),
                                     Get(daily, "sunshine_duration", <<>>),
                                     Get(daily, "weather_code", <<>>))
                        THEN abort(404, MsgEmptySet)
                        ELSE jsonify(result(f.value, req.start, req.end))

----------------------------------------------------------------------------
(* The state machine: one request at a time, each served to its response.  *)

NoRequest == [endpoint |-> "", lat |-> "", lon |-> "", start |-> None, end |-> None]

Init ==
    /\ pc = "idle"
    /\ request = NoRequest
    /\ calls = <<>>
    /\ upstream = None
    /\ responses = <<>>

\* Flask routes a request to a handler.
Receive(endpoint, lat, lon, dates) ==
    /\ pc = "idle"
    /\ pc' = "received"
    /\ request' = [endpoint |-> endpoint, lat |-> lat, lon |-> lon,
                   start |-> dates[1], end |-> dates[2]]
    /\ calls' = <<>>
    /\ upstream' = None
    /\ responses' = <<>>

\* The handler runs up to requests.get, or to the response that ends it.
Enter(daily, today, python) ==
    LET e == handler_entry(request, daily, today, python)
    IN  /\ pc = "received"
        /\ request.endpoint = (IF daily THEN "weather" ELSE "weekly")
        /\ IF e.send
           THEN /\ calls' = Append(calls, [url |-> e.url, timeout |-> REQUEST_TIMEOUT])
                /\ pc' = "awaiting"
                /\ UNCHANGED responses
           ELSE /\ responses' = Append(responses, e.response)
                /\ pc' = "done"
                /\ UNCHANGED calls
        /\ UNCHANGED <<request, upstream>>

\* requests.get returns or raises, and the handler runs to its response.
Return(daily, r) ==
    /\ pc = "awaiting"
    /\ request.endpoint = (IF daily THEN "weather" ELSE "weekly")
    /\ upstream' = Some(r)
    /\ responses' = Append(responses, IF daily THEN weather_daily(request, r)
                                      ELSE weather_weekly(request, r))
    /\ pc' = "done"
    /\ UNCHANGED <<request, calls>>

\* The response is sent and the request context, with everything scoped to
\* the request, is discarded.
Teardown ==
    /\ pc = "done"
    /\ pc' = "idle"
    /\ request' = NoRequest
    /\ calls' = <<>>
    /\ upstream' = None
    /\ responses' = <<>>

weather_daily_enter == \E today \in Todays, python \in Interpreters : Enter(TRUE, today, python)

weather_daily_return == \E r \in Replies : Return(TRUE, r)

weather_weekly_enter == \E today \in Todays, python \in Interpreters : Enter(FALSE, today, python)

weather_weekly_return == \E r \in Replies : Return(FALSE, r)

NewRequest ==
    \E endpoint \in {"weather", "weekly"}, lat \in LatStrings, lon \in LonStrings,
       dates \in DatePairs :
        Receive(endpoint, lat, lon, dates)

Next ==
    \/ NewRequest
    \/ weather_daily_enter
    \/ weather_daily_return
    \/ weather_weekly_enter
    \/ weather_weekly_return
    \/ Teardown

Spec == Init /\ [][Next]_vars

----------------------------------------------------------------------------
(* Vocabulary of the properties. *)

\* The request has been answered.
Answered == pc = "done" /\ Len(responses) = 1

Response == responses[1]

\* The upstream answered with a success status and a JSON body, and the
\* request has been answered.
GotBody ==
    /\ Answered
    /\ upstream # None
    /\ upstream[1].raised = ""
    /\ upstream[1].status_code = 200
    /\ upstream[1].json # None

Raw == upstream[1].json[1]

HasDaily(raw) == "daily" \in DOMAIN raw

FiveArrays ==
    { "pressure_msl_mean", "temperature_2m_max", "temperature_2m_min",
      "sunshine_duration", "weather_code" }

\* The array is missing from `daily` or empty.
Absent(daily, k) == k \notin DOMAIN daily \/ Len(daily[k]) = 0

\* The upstream array, or the empty array if the field is missing.
ArrayOrEmpty(daily, k) == IF k \in DOMAIN daily THEN daily[k] ELSE <<>>

Elements(xs) == {xs[i] : i \in DOMAIN xs}

\* The segment is a finite number.
IsNumber(s) == float(s).raised = "" /\ float(s).value.kind = "num"

\* The segment is a finite number of at most `bound` degrees either way.
WithinDegrees(s, bound) ==
    /\ IsNumber(s)
    /\ -1000 * bound <= float(s).value.milli
    /\ float(s).value.milli <= 1000 * bound

IsDate(s) == s \in Elements(Calendar)

DayOf(s) == CHOOSE i \in DOMAIN Calendar : Calendar[i] = s

\* The request carries a date that is not YYYY-MM-DD.
BadDate(req) ==
    \/ req.start # None /\ ~IsDate(req.start[1])
    \/ req.end # None /\ ~IsDate(req.end[1])

\* The request carries two dates, the first after the second.
BadOrder(req) ==
    /\ req.start # None /\ req.end # None
    /\ IsDate(req.start[1]) /\ IsDate(req.end[1])
    /\ DayOf(req.start[1]) > DayOf(req.end[1])

\* The request's input fails validation: a coordinate that is no number or
\* lies outside its range, a malformed date, or start after end.
FailsValidation(req) ==
    \/ ~WithinDegrees(req.lat, 90)
    \/ ~WithinDegrees(req.lon, 180)
    \/ BadDate(req)
    \/ BadOrder(req)

----------------------------------------------------------------------------
(* C1 *)

\* C1: a request whose input fails validation (a coordinate that is not a
\* number or is out of range, a date that is not YYYY-MM-DD, start after
\* end) makes no outbound call at any point and is answered 400; when the
\* only fault is start after end, the message is "start_date cannot be
\* after end_date."
C1_InvalidInputIs400WithoutCall ==
    (pc # "idle" /\ FailsValidation(request)) =>
        /\ calls = <<>>
        /\ pc = "done" =>
            /\ Answered
            /\ Response.status = 400
            /\ ( /\ WithinDegrees(request.lat, 90)
                 /\ WithinDegrees(request.lon, 180)
                 /\ BadOrder(request) ) => Response.message = MsgOrder

----------------------------------------------------------------------------
(* C2 *)

\* C2: when the upstream answers a valid request with a non-success status
\* s, the client is answered with status s and the message "Open-Meteo
\* error", whatever s is.
C2_UpstreamStatusPassedThrough ==
    ( /\ Answered
      /\ upstream # None
      /\ upstream[1].raised = ""
      /\ upstream[1].status_code >= 400 ) =>
        /\ Response.status = upstream[1].status_code
        /\ Response.message = MsgUpstream

----------------------------------------------------------------------------
(* C3 *)

\* C3: after a successful upstream call that returned a JSON body, either
\* endpoint answers 404 "No weather data found..." exactly when the body is
\* empty or has no `daily`; the weekly endpoint answers 404 "Weather service
\* returned empty data set." exactly when `daily` is there and all five data
\* arrays are empty or missing, whatever the time array holds; the weekly
\* endpoint answers 404 in no other case, and the daily endpoint never
\* answers with the empty-data-set message.
C3_NotFoundExactly ==
    GotBody =>
        LET noDaily == Raw = EmptyDict \/ ~HasDaily(Raw)
            empty   == HasDaily(Raw) /\ \A k \in FiveArrays : Absent(Raw["daily"], k)
        IN  /\ (Response.status = 404 /\ Response.message = MsgNoData) <=> noDaily
            /\ request.endpoint = "weekly" =>
                /\ (Response.status = 404 /\ Response.message = MsgEmptySet) <=> empty
                /\ Response.status = 404 <=> (noDaily \/ empty)
            /\ request.endpoint = "weather" => Response.message # MsgEmptySet

\* The weekly endpoint has answered 404 "empty data set" to a body whose
\* `daily` holds a filled time array and no data.
C3_Witness ==
    /\ GotBody
    /\ request.endpoint = "weekly"
    /\ HasDaily(Raw)
    /\ "time" \in DOMAIN Raw["daily"]
    /\ Raw["daily"]["time"] = SampleTime
    /\ "weather_code" \in DOMAIN Raw["daily"]
    /\ Response.status = 404
    /\ Response.message = MsgEmptySet

----------------------------------------------------------------------------
(* C4 *)

\* C4: in a 200 response of the weekly endpoint, start_date and end_date are
\* the first and last elements of the upstream time array when it is there
\* and non-empty; otherwise they are the start and end strings of the
\* upstream query, which are the caller's or, when the caller gave none,
\* the defaults (today and today + 7 days).
C4_DatesEchoed ==
    (GotBody /\ request.endpoint = "weekly" /\ Response.status = 200) =>
        LET time == ArrayOrEmpty(Raw["daily"], "time")
        IN  IF Len(time) > 0
            THEN /\ Response.body.start_date = Some(time[1])
                 /\ Response.body.end_date = Some(time[Len(time)])
            ELSE /\ Response.body.start_date = Some(calls[1].url.start_date)
                 /\ Response.body.end_date = Some(calls[1].url.end_date)

----------------------------------------------------------------------------
(* C5 *)

\* C5: a request with numeric coordinates is rejected with 400, before any
\* call, whenever its latitude lies outside [-90, 90] or its longitude
\* outside [-180, 180], fractions of a degree included; and coordinates
\* inside both ranges are never rejected by the range check.
C5_RangeCheckedExactly ==
    (pc \in {"awaiting", "done"} /\ IsNumber(request.lat) /\ IsNumber(request.lon)) =>
        IF WithinDegrees(request.lat, 90) /\ WithinDegrees(request.lon, 180)
        THEN ~(Answered /\ Response.message = MsgRange)
        ELSE /\ Answered
             /\ calls = <<>>
             /\ Response.status = 400

----------------------------------------------------------------------------
(* C6 *)

DailyKeys ==
    {"time", "sunshine_duration", "temperature_2m_max", "temperature_2m_min",
     "weather_code"}

UnitKeys == {"sunshine_duration", "temperature_2m_max", "temperature_2m_min"}

\* The upstream unit string, or "" if `daily_units` or the unit is missing.
UnitOrBlank(raw, k) ==
    IF "daily_units" \in DOMAIN raw /\ k \in DOMAIN raw["daily_units"]
    THEN raw["daily_units"][k] ELSE ""

\* C6: for every upstream success body with a `daily` object, the daily
\* endpoint answers 200 with exactly `daily` and `daily_units`; `daily` has
\* exactly the keys time, sunshine_duration, temperature_2m_max,
\* temperature_2m_min and weather_code, each the upstream array or the empty
\* array if missing; `daily_units` has the units of sunshine_duration,
\* temperature_2m_max and temperature_2m_min, each the upstream string or ""
\* if missing; pressure_msl_mean and every other upstream field are left out.
C6_DailyViewExact ==
    (GotBody /\ request.endpoint = "weather" /\ HasDaily(Raw)) =>
        /\ Response.status = 200
        /\ DOMAIN Response.body = {"daily", "daily_units"}
        /\ DOMAIN Response.body.daily = DailyKeys
        /\ \A k \in DailyKeys : Response.body.daily[k] = ArrayOrEmpty(Raw["daily"], k)
        /\ DOMAIN Response.body.daily_units = UnitKeys
        /\ \A k \in UnitKeys : Response.body.daily_units[k] = UnitOrBlank(Raw, k)

\* The daily endpoint has answered a body that carries pressure, a field no
\* endpoint asks for and units the view has no place for.
C6_Witness ==
    /\ GotBody
    /\ request.endpoint = "weather"
    /\ HasDaily(Raw)
    /\ {"pressure_msl_mean", "rain_sum"} \subseteq DOMAIN Raw["daily"]
    /\ "elevation" \in DOMAIN Raw
    /\ Response.status = 200
    /\ Response.body.daily.weather_code = <<3, 0>>

----------------------------------------------------------------------------
(* C7 *)

CountOf(xs, v) == Cardinality({i \in DOMAIN xs : xs[i] = v})

FirstIndexOf(xs, v) ==
    CHOOSE i \in DOMAIN xs : xs[i] = v /\ \A j \in DOMAIN xs : xs[j] = v => i <= j

\* C7: in a 200 response of the weekly endpoint with a non-empty
\* weather_code array, most_frequent_weather_code occurs in the array as
\* often as any value does, and among the values that occur as often it is
\* the one whose first occurrence comes first.
C7_ModeFirstSeenWins ==
    ( /\ GotBody /\ request.endpoint = "weekly" /\ Response.status = 200
      /\ ~Absent(Raw["daily"], "weather_code") ) =>
        LET codes == Raw["daily"]["weather_code"]
            mode  == Response.body.most_frequent_weather_code
        IN  /\ mode # None
            /\ mode[1] \in Elements(codes)
            /\ \A v \in Elements(codes) :
                /\ CountOf(codes, v) <= CountOf(codes, mode[1])
                /\ CountOf(codes, v) = CountOf(codes, mode[1])
                       => FirstIndexOf(codes, mode[1]) <= FirstIndexOf(codes, v)

\* The weekly endpoint has answered an array of three codes that tie, the
\* first of them the largest.
C7_Witness ==
    /\ GotBody
    /\ request.endpoint = "weekly"
    /\ HasDaily(Raw)
    /\ "weather_code" \in DOMAIN Raw["daily"]
    /\ Raw["daily"]["weather_code"] = <<3, 0, 1>>
    /\ Response.status = 200
    /\ Response.body.most_frequent_weather_code = Some(3)

----------------------------------------------------------------------------
(* C8 *)

AggregateOf ==
    [pressure_msl_mean  |-> "avg_pressure_hPa",
     temperature_2m_max |-> "weekly_max_temp",
     temperature_2m_min |-> "weekly_min_temp",
     sunshine_duration  |-> "avg_sunshine_hours",
     weather_code       |-> "most_frequent_weather_code"]

\* C8: in a 200 response of the weekly endpoint each aggregate is null
\* exactly when its own source array is empty or missing, whatever the other
\* four arrays hold; otherwise weekly_max_temp is the largest element of
\* temperature_2m_max and weekly_min_temp the smallest element of
\* temperature_2m_min, as they stand.
C8_AggregateNullExactly ==
    (GotBody /\ request.endpoint = "weekly" /\ Response.status = 200) =>
        LET daily == Raw["daily"]
            body  == Response.body
        IN  /\ \A k \in FiveArrays : (body[AggregateOf[k]] = None) <=> Absent(daily, k)
            /\ ~Absent(daily, "temperature_2m_max") =>
                /\ body.weekly_max_temp[1] \in Elements(daily["temperature_2m_max"])
                /\ \A x \in Elements(daily["temperature_2m_max"]) :
                       x <= body.weekly_max_temp[1]
            /\ ~Absent(daily, "temperature_2m_min") =>
                /\ body.weekly_min_temp[1] \in Elements(daily["temperature_2m_min"])
                /\ \A x \in Elements(daily["temperature_2m_min"]) :
                       body.weekly_min_temp[1] <= x

\* The weekly endpoint has answered a body with only the two temperature
\* arrays filled: their aggregates are set, the other three null.
C8_Witness ==
    /\ GotBody
    /\ request.endpoint = "weekly"
    /\ Response.status = 200
    /\ Response.body.weekly_max_temp = Some(10)
    /\ Response.body.weekly_min_temp = Some(0)
    /\ Response.body.avg_pressure_hPa = None
    /\ Response.body.avg_sunshine_hours = None
    /\ Response.body.most_frequent_weather_code = None
    /\ "pressure_msl_mean" \in DOMAIN Raw["daily"]
    /\ "weather_code" \notin DOMAIN Raw["daily"]

----------------------------------------------------------------------------
(* C9 *)

\* C9: a request makes at most one outbound call, and once served it has
\* exactly one response, whose status is 200, 400, 404 or the non-success
\* status the upstream answered with.
C9_OneCallOneResponse ==
    /\ Len(calls) <= 1
    /\ pc = "done" =>
        /\ Len(responses) = 1
        /\ \/ Response.status \in {200, 400, 404}
           \/ /\ upstream # None
              /\ upstream[1].raised = ""
              /\ upstream[1].status_code >= 400
              /\ Response.status = upstream[1].status_code

----------------------------------------------------------------------------
(* C10 *)

DataFreeBody == GotBody /\ HasDaily(Raw) /\ \A k \in FiveArrays : Absent(Raw["daily"], k)

\* C10, as claimed: for an upstream success body whose `daily` is there with
\* all data arrays (the time array too) empty or missing, the daily endpoint answers 200 with
\* every array empty and every unit the empty string, and the weekly
\* endpoint answers 404.
C10_AllEmptyAsClaimed ==
    (DataFreeBody /\ Absent(Raw["daily"], "time")) =>
        /\ request.endpoint = "weather" =>
            /\ Response.status = 200
            /\ \A k \in DailyKeys : Response.body.daily[k] = <<>>
            /\ \A k \in UnitKeys : Response.body.daily_units[k] = ""
        /\ request.endpoint = "weekly" => Response.status = 404

\* C10, amended: for such a body the daily endpoint answers 200 with the
\* four data arrays empty, the time array as the upstream sent it (empty if
\* missing) and each unit as the upstream sent it ("" if missing), and the
\* weekly endpoint answers 404 "Weather service returned empty data set."
C10_EndpointsDifferOnEmptyData ==
    DataFreeBody =>
        /\ request.endpoint = "weather" =>
            /\ Response.status = 200
            /\ \A k \in DailyKeys \ {"time"} : Response.body.daily[k] = <<>>
            /\ Response.body.daily.time = ArrayOrEmpty(Raw["daily"], "time")
            /\ \A k \in UnitKeys : Response.body.daily_units[k] = UnitOrBlank(Raw, k)
        /\ request.endpoint = "weekly" =>
            /\ Response.status = 404
            /\ Response.message = MsgEmptySet

\* The daily endpoint has answered 200 to a body without data whose time
\* array and units are filled.
C10_Witness ==
    /\ DataFreeBody
    /\ request.endpoint = "weather"
    /\ Response.status = 200
    /\ Response.body.daily.time = SampleTime
    /\ Response.body.daily.weather_code = <<>>
    /\ Response.body.daily_units.sunshine_duration = "s"

====
